---- MODULE Spec2Model ----
(***************************************************************************)
(* Model of the water-tool-backend authentication service.                 *)
(*                                                                         *)
(* The request handlers of controllers/authController.js are modelled one  *)
(* action per route (the route's middleware chain followed by its          *)
(* handler), running one request at a time.  The Mongoose User model       *)
(* (models/User.js) and the token middleware (middleware/auth.js) are      *)
(* required by the controller but are not among the source files; they are *)
(* modelled from the specification.                                        *)
(*                                                                         *)
(* Text is modelled as sequences of one-character strings, so that         *)
(* trim/split/join and the e-mail pattern are computed, not assumed.       *)
(* Passwords are TLA+ strings (only their length and equality matter).     *)
(***************************************************************************)
EXTENDS Integers, Sequences, FiniteSets

VARIABLES
    users,      \* the users collection: sequence of documents, _id = index
    now,        \* the clock read by new Date()
    minted,     \* minted[n] = user id the n-th token pair was signed for
    res,        \* the response to the latest request (with what it answers)
    creds,      \* history: creds[id] = e-mail and password given at Register
    rotated,    \* history: refresh tokens consumed by a successful refresh
    pending,    \* bodies of the Register requests between check and save
    verified,   \* refresh tokens between verifyRefreshToken and the handler
    thisUsers,  \* database/index.js: this.users of the Database object
    usersJson,  \* database/index.js: the records in its users.json
    usersFile,  \* the static Database: the records in data/users.json
    calls,      \* the static Database: the calls waiting at an await
    ret,        \* what the latest Database call returned or threw
    updating,   \* PUT /profile requests between the e-mail check and the update
    readyState, \* mongoose.connection.readyState
    cachedConnection,   \* the handle kept by connectDB, or null
    connecting, \* requests waiting at await connectDB() in the middleware
    served      \* where the latest request left the connection middleware

\* the state of the two file-backed Database classes
dbvars == <<thisUsers, usersJson, usersFile, calls, ret>>

\* the state of the entry file: the connection and the requests waiting for it
connvars == <<readyState, cachedConnection, connecting, served>>

vars == <<users, now, minted, res, creds, rotated, pending, verified, updating,
          connvars, dbvars>>

-----------------------------------------------------------------------------
(* Bounds of the model *)

MaxUsers == 2
MaxTime == 2
MaxTokens == 2
MaxPairs == 4

-----------------------------------------------------------------------------
(* Text helpers: String.prototype.trim / split(' ') / join(' ') *)

RECURSIVE TrimLeft(_)
TrimLeft(s) ==
    IF s # <<>> /\ Head(s) = " " THEN TrimLeft(Tail(s)) ELSE s

RECURSIVE TrimRight(_)
TrimRight(s) ==
    IF s # <<>> /\ s[Len(s)] = " " THEN TrimRight(SubSeq(s, 1, Len(s) - 1)) ELSE s

Trim(s) == TrimRight(TrimLeft(s))

\* s.split(sep): always at least one part; adjacent separators give empty parts
RECURSIVE Split(_, _)
Split(s, sep) ==
    IF \E i \in 1..Len(s) : s[i] = sep
    THEN LET i == CHOOSE k \in 1..Len(s) :
                      s[k] = sep /\ \A j \in 1..(k - 1) : s[j] # sep
         IN  <<SubSeq(s, 1, i - 1)>> \o Split(SubSeq(s, i + 1, Len(s)), sep)
    ELSE <<s>>

RECURSIVE Join(_, _)
Join(parts, sep) ==
    IF parts = <<>> THEN <<>>
    ELSE IF Len(parts) = 1 THEN parts[1]
    ELSE parts[1] \o <<sep>> \o Join(Tail(parts), sep)

\* nameParts[0] || fallback   (the empty string is falsy)
OrElse(s, fallback) == IF s # <<>> THEN s ELSE fallback

FirstNameOf(name) == OrElse(Split(Trim(name), " ")[1], <<>>)
LastNameOf(name) == OrElse(Join(Tail(Split(Trim(name), " ")), " "), <<>>)

\* `${firstName} ${lastName}`.trim()
DisplayName(firstName, lastName) == Trim(firstName \o <<" ">> \o lastName)

\* email.split('@')[0]
UsernameOf(email) == Split(email, "@")[1]

-----------------------------------------------------------------------------
(* The e-mail pattern  /^\w+([.-]?\w+)*@\w+([.-]?\w+)*(\.\w{2,3})+$/  *)

WordChars == {"a", "b", "x", "y", "s", "e", "_"}
SepChars == {".", "-"}

\* \w+([.-]?\w+)* : word characters and single separators, a word character
\* at both ends, no two separators in a row
MatchesWords(s) ==
    /\ s # <<>>
    /\ \A i \in 1..Len(s) : s[i] \in WordChars \cup SepChars
    /\ s[1] \in WordChars
    /\ s[Len(s)] \in WordChars
    /\ \A i \in 1..(Len(s) - 1) : ~(s[i] \in SepChars /\ s[i + 1] \in SepChars)

\* (\.\w{2,3})+$ : one or more groups of a dot and two or three word characters
RECURSIVE MatchesTlds(_)
MatchesTlds(s) ==
    \E k \in {2, 3} :
        /\ Len(s) >= k + 1
        /\ s[1] = "."
        /\ \A i \in 2..(k + 1) : s[i] \in WordChars
        /\ (Len(s) = k + 1 \/ MatchesTlds(SubSeq(s, k + 2, Len(s))))

emailRegexTest(email) ==
    \E at \in 1..Len(email) :
        /\ email[at] = "@"
        /\ MatchesWords(SubSeq(email, 1, at - 1))
        /\ \E cut \in (at + 1)..Len(email) :
              /\ MatchesWords(SubSeq(email, at + 1, cut))
              /\ MatchesTlds(SubSeq(email, cut + 1, Len(email)))

-----------------------------------------------------------------------------
(* Request inputs *)

AX == <<"a", "@", "x", ".", "s", "e">>
BX == <<"b", "@", "x", ".", "s", "e">>
AY == <<"a", "@", "y", ".", "s", "e">>
BadEmail == <<"a", "@", "x">>
Absent == <<>>              \* a missing or empty text field (both are falsy)

GoodEmails == {AX, BX, AY}

JD == <<"J", " ", "D">>

GoodPassword == "secret1"

\* bodies that pass validateRegistrationInput
ValidBodies ==
    [name : {JD}, email : GoodEmails, password : {GoodPassword},
     confirmPassword : {""}, role : {"user"}]
        \cup [name : {JD}, email : {AX, BX}, password : {GoodPassword},
               confirmPassword : {GoodPassword}, role : {"admin"}]

BaseBody ==
    [name |-> JD, email |-> AX, password |-> GoodPassword,
     confirmPassword |-> "", role |-> "user"]

\* the body of the README and of the test script: username, firstName and
\* lastName, and no name
ReadmeBody ==
    [name |-> Absent, email |-> AX, password |-> GoodPassword,
     confirmPassword |-> "", role |-> "user",
     username |-> <<"j", "d">>, firstName |-> <<"J">>, lastName |-> <<"D">>]

\* bodies that fail one or more of its checks
InvalidBodies ==
    {[BaseBody EXCEPT !.name = Absent],
     [BaseBody EXCEPT !.email = Absent],
     [BaseBody EXCEPT !.password = ""],
     [BaseBody EXCEPT !.confirmPassword = "secret2"],
     [BaseBody EXCEPT !.password = "abc"],
     [BaseBody EXCEPT !.password = "abc", !.confirmPassword = "secret2"],
     [BaseBody EXCEPT !.email = BadEmail],
     [BaseBody EXCEPT !.password = "abc", !.email = BadEmail],
     [BaseBody EXCEPT !.name = Absent, !.confirmPassword = "secret2"],
     [BaseBody EXCEPT !.confirmPassword = "secret2", !.email = BadEmail],
     ReadmeBody}

RegisterBodies == ValidBodies \cup InvalidBodies

-----------------------------------------------------------------------------
(* Password hashing of the User model: a one-way image, never the plaintext *)

Hash(plaintext) == <<"bcrypt", plaintext>>

comparePassword(candidate, hash) == hash = Hash(candidate)

-----------------------------------------------------------------------------
(* Tokens: signed for a user id, the n-th pair minted carries n *)

AccessToken(uid) == [kind |-> "access", uid |-> uid]
RefreshTokenOf(uid, n) == [kind |-> "refresh", uid |-> uid, n |-> n]
NoToken == [kind |-> "none"]

\* tokens whose signature does not verify: never minted by the service
ForgedAccess == [kind |-> "access", uid |-> 0]
ForgedRefresh == [kind |-> "refresh", uid |-> 1, n |-> 0]

IssuedAccess == {AccessToken(minted[n]) : n \in 1..Len(minted)}
IssuedRefresh == {RefreshTokenOf(minted[n], n) : n \in 1..Len(minted)}

\* jwt.verify: the signature is good exactly for the tokens the service minted
verifyAccess(token) == IF token \in IssuedAccess THEN token.uid ELSE 0

generateTokens(uid) ==
    [accessToken |-> AccessToken(uid),
     refreshToken |-> RefreshTokenOf(uid, Len(minted) + 1)]

-----------------------------------------------------------------------------
(* The users collection *)

NoTime == 0                 \* lastLogin: null

NoView == [none |-> TRUE]

\* User.findOne({ $or: [{ email }, { username }] }): first match, 0 if none
FindOneByEmailOrUsername(email, username) ==
    IF \E i \in 1..Len(users) : users[i].email = email \/ users[i].username = username
    THEN CHOOSE i \in 1..Len(users) :
            /\ users[i].email = email \/ users[i].username = username
            /\ \A j \in 1..(i - 1) :
                  ~(users[j].email = email \/ users[j].username = username)
    ELSE 0

\* User.findOne({ email })
FindOneByEmail(email) ==
    IF \E i \in 1..Len(users) : users[i].email = email
    THEN CHOOSE i \in 1..Len(users) :
            users[i].email = email /\ \A j \in 1..(i - 1) : users[j].email # email
    ELSE 0

\* user.addRefreshToken(token) / removeRefreshToken / removeAllRefreshTokens
\* on the document doc, each followed by save()
addRefreshToken(doc, token) ==
    [doc EXCEPT !.refreshTokens = @ \cup {token}, !.updatedAt = now]
removeRefreshToken(doc, token) ==
    [doc EXCEPT !.refreshTokens = @ \ {token}, !.updatedAt = now]
removeAllRefreshTokens(doc) ==
    [doc EXCEPT !.refreshTokens = {}, !.updatedAt = now]

-----------------------------------------------------------------------------
(* Responses *)

Response(op, status, message) ==
    [op |-> op, status |-> status, message |-> message,
     \* what the request carried: its e-mail and password (login), its role
     \* field (register, profile), its refresh token (logout, refresh)
     email |-> Absent, password |-> "", role |-> "", sent |-> NoToken,
     \* the user the request was handled for, and the data of the response
     uid |-> 0, user |-> NoView, accessToken |-> NoToken,
     refreshToken |-> NoToken]

\* let cachedConnection = null
NoConnection == [null |-> TRUE]

\* no request has passed the connection middleware yet
NoRequest ==
    [method |-> "none", path |-> "", connectDB |-> "none", outcome |-> "none",
     readyState |-> 0]

\* no Database call has returned yet
NoReturn == [kind |-> "none"]

Init ==
    /\ users = <<>>
    /\ now = 1
    /\ minted = <<>>
    /\ res = Response("none", 0, "")
    /\ creds = <<>>
    /\ rotated = {}
    /\ pending = <<>>
    /\ verified = <<>>
    /\ thisUsers = <<>>
    /\ usersJson = <<>>
    /\ usersFile = <<>>
    /\ calls = <<>>
    /\ ret = NoReturn
    /\ updating = <<>>
    /\ readyState = 0
    /\ cachedConnection = NoConnection
    /\ connecting = <<>>
    /\ served = NoRequest

-----------------------------------------------------------------------------
(* POST /register : validateRegistrationInput, registerUser *)

MinPasswordLength == 6

\* (variant: the length of the password checked before the confirmation)
validateRegistrationInput_lengthFirst(body) ==
    IF body.name = Absent \/ body.email = Absent \/ body.password = ""
    THEN "All fields are required"
    ELSE IF Len(body.password) < MinPasswordLength
    THEN "Password must be at least 6 characters long"
    ELSE IF body.confirmPassword # "" /\ body.password # body.confirmPassword
    THEN "Passwords do not match"
    ELSE IF ~emailRegexTest(body.email)
    THEN "Please enter a valid email"
    ELSE "next"

\* "next" when the request goes on to the handler, else the 400 message
validateRegistrationInput(body) ==
    IF body.name = Absent \/ body.email = Absent \/ body.password = ""
    THEN "All fields are required"
    ELSE IF body.confirmPassword # "" /\ body.password # body.confirmPassword
    THEN "Passwords do not match"
    ELSE IF Len(body.password) < MinPasswordLength
    THEN "Password must be at least 6 characters long"
    ELSE IF ~emailRegexTest(body.email)
    THEN "Please enter a valid email"
    ELSE "next"

\* (variant: the existence check left out)
registerCheck_skipped(body) == "ok"

\* the existence check: "ok", or the message of the 400 response
registerCheck(body) ==
    LET existingUser == FindOneByEmailOrUsername(body.email, UsernameOf(body.email))
    IN  IF existingUser = 0 THEN "ok"
        ELSE IF users[existingUser].email = body.email
             THEN "Email already exists"
             ELSE "Username already exists"

\* (variant: the role taken from the request body)
NewUserFields_bodyRole(body) ==
    [username |-> UsernameOf(body.email),
     email |-> body.email,
     password |-> body.password,
     firstName |-> FirstNameOf(body.name),
     lastName |-> LastNameOf(body.name),
     role |-> body.role]

\* new User({ username, email, password, firstName, lastName, role: 'user' })
NewUserFields(body) ==
    [username |-> UsernameOf(body.email),
     email |-> body.email,
     password |-> body.password,
     firstName |-> FirstNameOf(body.name),
     lastName |-> LastNameOf(body.name),
     role |-> "user"]

\* user.save() of a new document: the password is hashed, the schema
\* defaults and the timestamps are set
SaveNew(fields) ==
    [email |-> fields.email,
     username |-> fields.username,
     password |-> Hash(fields.password),
     firstName |-> fields.firstName,
     lastName |-> fields.lastName,
     role |-> fields.role,
     isActive |-> TRUE,
     lastLogin |-> NoTime,
     createdAt |-> now,
     updatedAt |-> now,
     refreshTokens |-> {}]

RegisterView(id, user) ==
    [id |-> id,
     name |-> DisplayName(user.firstName, user.lastName),
     email |-> user.email,
     username |-> user.username,
     role |-> user.role,
     createdAt |-> user.createdAt]

\* registerUser from user.save() on: the insert, the tokens, the 201 response
registerSave(body) ==
    /\ Len(users) < MaxUsers
    /\ Len(minted) < MaxTokens
    /\ LET id == Len(users) + 1
           user == SaveNew(NewUserFields(body))
           tokens == generateTokens(id)
       IN  /\ users' = Append(users, addRefreshToken(user, tokens.refreshToken))
           /\ minted' = Append(minted, id)
           /\ creds' = Append(creds, [email |-> body.email,
                                      password |-> body.password])
           /\ res' = [Response("register", 201, "User registered successfully")
                         EXCEPT !.role = body.role,
                                !.uid = id,
                                !.user = RegisterView(id, user),
                                !.accessToken = tokens.accessToken,
                                !.refreshToken = tokens.refreshToken]
    /\ UNCHANGED <<now, rotated>>

registerUser(body) ==
    LET check == registerCheck(body) IN
    IF check # "ok"
    THEN /\ res' = Response("register", 400, check)
         /\ UNCHANGED <<users, now, minted, creds, rotated, pending, verified, updating, connvars, dbvars>>
    ELSE /\ registerSave(body)
         /\ UNCHANGED <<pending, verified, updating, connvars, dbvars>>

RegisterWith(body) ==
    LET verdict == validateRegistrationInput(body) IN
    IF verdict # "next"
    THEN /\ res' = Response("register", 400, verdict)
         /\ UNCHANGED <<users, now, minted, creds, rotated, pending, verified, updating, connvars, dbvars>>
    ELSE registerUser(body)

RegisterRoute == \E body \in RegisterBodies : RegisterWith(body)

-----------------------------------------------------------------------------
(* POST /login : loginUser *)

LoginResult(status, message) == [status |-> status, message |-> message]

\* (variant: the stored hash compared with the plaintext itself)
loginCheck_plainCompare(email, password) ==
    IF email = Absent \/ password = ""
    THEN LoginResult(400, "Email and password are required")
    ELSE LET id == FindOneByEmail(email)
         IN  IF id = 0
             THEN LoginResult(401, "Invalid email or password")
             ELSE IF ~users[id].isActive
             THEN LoginResult(401, "Account is deactivated")
             ELSE IF users[id].password # password
             THEN LoginResult(401, "Invalid email or password")
             ELSE LoginResult(200, "Login successful")

\* (variant: a message of its own for the wrong password)
loginCheck_wrongPasswordMessage(email, password) ==
    IF email = Absent \/ password = ""
    THEN LoginResult(400, "Email and password are required")
    ELSE LET id == FindOneByEmail(email)
         IN  IF id = 0
             THEN LoginResult(401, "Invalid email or password")
             ELSE IF ~users[id].isActive
             THEN LoginResult(401, "Account is deactivated")
             ELSE IF ~comparePassword(password, users[id].password)
             THEN LoginResult(401, "Invalid password")
             ELSE LoginResult(200, "Login successful")

\* (variant: the isActive check left out)
loginCheck_noActiveCheck(email, password) ==
    IF email = Absent \/ password = ""
    THEN LoginResult(400, "Email and password are required")
    ELSE LET id == FindOneByEmail(email)
         IN  IF id = 0
             THEN LoginResult(401, "Invalid email or password")
             ELSE IF ~comparePassword(password, users[id].password)
             THEN LoginResult(401, "Invalid email or password")
             ELSE LoginResult(200, "Login successful")

\* the checks before the login is recorded: status and message, 200 to go on
loginCheck(email, password) ==
    IF email = Absent \/ password = ""
    THEN LoginResult(400, "Email and password are required")
    ELSE LET id == FindOneByEmail(email)
         IN  IF id = 0
             THEN LoginResult(401, "Invalid email or password")
             ELSE IF ~users[id].isActive
             THEN LoginResult(401, "Account is deactivated")
             ELSE IF ~comparePassword(password, users[id].password)
             THEN LoginResult(401, "Invalid email or password")
             ELSE LoginResult(200, "Login successful")

\* (variant: the whole document sent as the view)
LoginView_wholeDocument(id, user) ==
    [id |-> id,
     name |-> DisplayName(user.firstName, user.lastName),
     email |-> user.email,
     username |-> user.username,
     password |-> user.password,
     role |-> user.role,
     lastLogin |-> user.lastLogin,
     createdAt |-> user.createdAt,
     refreshTokens |-> user.refreshTokens]

\* loginUser: data.user
LoginView(id, user) ==
    [id |-> id,
     name |-> DisplayName(user.firstName, user.lastName),
     email |-> user.email,
     username |-> user.username,
     role |-> user.role,
     lastLogin |-> user.lastLogin,
     createdAt |-> user.createdAt]

\* (variant: the login not recorded)
recordLogin_skipped(doc) == doc

\* User.findByIdAndUpdate(user._id, { lastLogin: new Date() })
recordLogin(doc) == [doc EXCEPT !.lastLogin = now, !.updatedAt = now]

\* (variant: the login recorded before the password is compared)
loginUser_recordFirst(email, password) ==
    LET check == loginCheck(email, password)
        found == FindOneByEmail(email)
    IN
    IF check.status # 200
    THEN /\ res' = [Response("login", check.status, check.message)
                        EXCEPT !.email = email, !.password = password]
         /\ users' = IF found # 0
                     THEN [users EXCEPT ![found] = recordLogin(@)]
                     ELSE users
         /\ UNCHANGED <<now, minted, creds, rotated, pending, verified, updating, connvars, dbvars>>
    ELSE /\ LET id == FindOneByEmail(email)
                user == users[id]
                tokens == generateTokens(id)
            IN  /\ users' = [users EXCEPT ![id] =
                                addRefreshToken(recordLogin(@), tokens.refreshToken)]
                /\ minted' = Append(minted, id)
                /\ res' = [Response("login", 200, "Login successful")
                              EXCEPT !.email = email,
                                     !.password = password,
                                     !.uid = id,
                                     !.user = LoginView(id, user),
                                     !.accessToken = tokens.accessToken,
                                     !.refreshToken = tokens.refreshToken]
         /\ UNCHANGED <<now, creds, rotated, pending, verified, updating, connvars, dbvars>>

loginUser(email, password) ==
    LET check == loginCheck(email, password) IN
    IF check.status # 200
    THEN /\ res' = [Response("login", check.status, check.message)
                        EXCEPT !.email = email, !.password = password]
         /\ UNCHANGED <<users, now, minted, creds, rotated, pending, verified, updating, connvars, dbvars>>
    ELSE /\ LET id == FindOneByEmail(email)
                user == users[id]       \* the document as loaded by findOne
                tokens == generateTokens(id)
            IN  /\ users' = [users EXCEPT ![id] =
                                addRefreshToken(recordLogin(@), tokens.refreshToken)]
                /\ minted' = Append(minted, id)
                /\ res' = [Response("login", 200, "Login successful")
                              EXCEPT !.email = email,
                                     !.password = password,
                                     !.uid = id,
                                     !.user = LoginView(id, user),
                                     !.accessToken = tokens.accessToken,
                                     !.refreshToken = tokens.refreshToken]
         /\ UNCHANGED <<now, creds, rotated, pending, verified, updating, connvars, dbvars>>

LoginPasswords == {GoodPassword, "secret2", ""}

LoginRoute ==
    \E email \in GoodEmails \cup {Absent}, password \in LoginPasswords :
        /\ loginUser(email, password)
        /\ Len(minted') <= MaxTokens

-----------------------------------------------------------------------------
(* The token middleware in front of the private routes and of /refresh *)

BearerInputs == IssuedAccess \cup {ForgedAccess}
RefreshInputs == IssuedRefresh \cup {ForgedRefresh}

\* authenticateToken: the id of req.user, or 0 when the request is rejected
authenticateToken(bearer) == verifyAccess(bearer)

Unauthenticated(op) ==
    /\ res' = Response(op, 401, "unauthenticated")
    /\ UNCHANGED <<users, now, minted, creds, rotated, pending, verified, updating, connvars, dbvars>>

\* verifyRefreshToken: "next" (req.user is the token's user), or the error kind
verifyRefreshToken(token) ==
    IF token \notin IssuedRefresh THEN "invalid-token"
    ELSE IF token \notin users[token.uid].refreshTokens THEN "revoked-token"
    ELSE "next"

-----------------------------------------------------------------------------
(* GET /me : authenticateToken, getCurrentUser *)

ProfileView(id, user) ==
    [id |-> id,
     name |-> DisplayName(user.firstName, user.lastName),
     email |-> user.email,
     username |-> user.username,
     role |-> user.role,
     lastLogin |-> user.lastLogin,
     createdAt |-> user.createdAt,
     updatedAt |-> user.updatedAt]

getCurrentUser(uid) ==
    /\ res' = [Response("me", 200, "") EXCEPT !.uid = uid,
                                             !.user = ProfileView(uid, users[uid])]
    /\ UNCHANGED <<users, now, minted, creds, rotated, pending, verified, updating, connvars, dbvars>>

GetProfileWith(bearer) ==
    LET uid == authenticateToken(bearer) IN
    IF uid = 0 THEN Unauthenticated("me") ELSE getCurrentUser(uid)

GetProfileRoute == \E bearer \in BearerInputs : GetProfileWith(bearer)

-----------------------------------------------------------------------------
(* PUT /profile : authenticateToken, updateProfile *)

\* a name that is absent, and the stored name with a trailing blank
ProfileNames == {Absent, JD \o <<" ">>}

\* the body of the README and of the test script: firstName and lastName, and
\* no name
NamesBody ==
    [name |-> Absent, email |-> Absent, role |-> "user",
     firstName |-> <<"U">>, lastName |-> <<"N">>]

ProfileBodies ==
    [name : ProfileNames, email : {Absent}, role : {"user"}]
        \cup [name : {Absent}, email : GoodEmails, role : {"user"}]
        \cup [name : {Absent}, email : {Absent, AY}, role : {"admin"}]

\* (variant: the e-mail of the body handed on as it is, absent or not)
ProfileUpdateFields_emailFromBody(uid, body) ==
    [firstName |-> IF body.name # Absent
                   THEN OrElse(Split(Trim(body.name), " ")[1], users[uid].firstName)
                   ELSE users[uid].firstName,
     lastName |-> IF body.name # Absent
                  THEN OrElse(Join(Tail(Split(Trim(body.name), " ")), " "), <<>>)
                  ELSE users[uid].lastName,
     email |-> body.email]

\* the fields handed to User.findByIdAndUpdate
ProfileUpdateFields(uid, body) ==
    [firstName |-> IF body.name # Absent
                   THEN OrElse(Split(Trim(body.name), " ")[1], users[uid].firstName)
                   ELSE users[uid].firstName,
     lastName |-> IF body.name # Absent
                  THEN OrElse(Join(Tail(Split(Trim(body.name), " ")), " "), <<>>)
                  ELSE users[uid].lastName,
     email |-> OrElse(body.email, users[uid].email)]

\* (variant: the uniqueness check left out)
emailTaken_skipped(uid, body) == FALSE

\* is the e-mail being changed to one that is already taken
emailTaken(uid, body) ==
    /\ body.email # Absent
    /\ body.email # users[uid].email
    /\ FindOneByEmail(body.email) # 0

\* User.findByIdAndUpdate(userId, fields, { new: true, runValidators: true })
findByIdAndUpdate(doc, fields) ==
    [doc EXCEPT !.firstName = fields.firstName,
                !.lastName = fields.lastName,
                !.email = fields.email,
                !.updatedAt = now]

updateProfile(uid, body) ==
    IF emailTaken(uid, body)
    THEN /\ res' = [Response("profile", 400, "Email already exists")
                        EXCEPT !.uid = uid]
         /\ UNCHANGED <<users, now, minted, creds, rotated, pending, verified, updating, connvars, dbvars>>
    ELSE LET updatedUser == findByIdAndUpdate(users[uid], ProfileUpdateFields(uid, body))
         IN  /\ users' = [users EXCEPT ![uid] = updatedUser]
             /\ res' = [Response("profile", 200, "Profile updated successfully")
                           EXCEPT !.uid = uid, !.role = body.role,
                                  !.user = ProfileView(uid, updatedUser)]
             /\ UNCHANGED <<now, minted, creds, rotated, pending, verified, updating, connvars, dbvars>>

UpdateProfileWith(bearer, body) ==
    LET uid == authenticateToken(bearer) IN
    IF uid = 0 THEN Unauthenticated("profile") ELSE updateProfile(uid, body)

UpdateProfileRoute ==
    \E bearer \in BearerInputs, body \in ProfileBodies :
        UpdateProfileWith(bearer, body)

-----------------------------------------------------------------------------
(* POST /logout : authenticateToken, logoutUser *)

\* req.user after the handler; NoToken stands for a body without refreshToken
\* (variant: only the token of the body is removed, sent or not)
logoutTokens_onlySent(doc, refreshToken) == removeRefreshToken(doc, refreshToken)

\* (variant: every token is removed, whatever the body)
logoutTokens_alwaysAll(doc, refreshToken) == removeAllRefreshTokens(doc)

\* req.user after removeRefreshToken(refreshToken) or removeAllRefreshTokens()
logoutTokens(doc, refreshToken) ==
    IF refreshToken # NoToken
    THEN removeRefreshToken(doc, refreshToken)
    ELSE removeAllRefreshTokens(doc)

logoutUser(uid, refreshToken) ==
    /\ users' = [users EXCEPT ![uid] = logoutTokens(@, refreshToken)]
    /\ res' = [Response("logout", 200, "Logout successful")
                  EXCEPT !.uid = uid, !.sent = refreshToken]
    /\ UNCHANGED <<now, minted, creds, rotated, pending, verified, updating, connvars, dbvars>>

\* (variant: the route without authenticateToken, trusting the token's claim)
LogoutWith_noAuth(bearer, token) == logoutUser(bearer.uid, token)

LogoutWith(bearer, token) ==
    LET uid == authenticateToken(bearer) IN
    IF uid = 0 THEN Unauthenticated("logout") ELSE logoutUser(uid, token)

LogoutRoute ==
    \E bearer \in BearerInputs, token \in RefreshInputs \cup {NoToken} :
        LogoutWith(bearer, token)

-----------------------------------------------------------------------------
(* POST /refresh : verifyRefreshToken, refreshToken *)

\* (variant: every stored token dropped for the new one)
rotateTokens_dropAll(doc, old, new) ==
    addRefreshToken(removeAllRefreshTokens(doc), new)

\* (variant: the old refresh token left in place)
rotateTokens_keepOld(doc, old, new) == addRefreshToken(doc, new)

\* req.user after removeRefreshToken(old) and addRefreshToken(new)
rotateTokens(doc, old, new) == addRefreshToken(removeRefreshToken(doc, old), new)

refreshToken(token) ==
    /\ LET uid == token.uid
           tokens == generateTokens(uid)
       IN  /\ users' = [users EXCEPT ![uid] =
                           rotateTokens(@, token, tokens.refreshToken)]
           /\ minted' = Append(minted, uid)
           /\ rotated' = rotated \cup {token}
           /\ res' = [Response("refresh", 200, "Token refreshed successfully")
                         EXCEPT !.uid = uid, !.sent = token,
                                !.accessToken = tokens.accessToken,
                                !.refreshToken = tokens.refreshToken]
    /\ UNCHANGED <<now, creds, pending, updating, connvars, dbvars>>

RefreshWith(token) ==
    LET verdict == verifyRefreshToken(token) IN
    IF verdict # "next"
    THEN /\ res' = [Response("refresh", 401, verdict) EXCEPT !.sent = token]
         /\ UNCHANGED <<users, now, minted, creds, rotated, pending, verified, updating, connvars, dbvars>>
    ELSE refreshToken(token) /\ UNCHANGED verified

RefreshRoute ==
    \E token \in RefreshInputs :
        /\ RefreshWith(token)
        /\ Len(minted') <= MaxTokens

-----------------------------------------------------------------------------
(* POST /register with its awaits: other requests run between the existence *)
(* check (await User.findOne) and the insert (await user.save())            *)

MaxPending == 2

\* the request up to the answer of User.findOne: rejected, or waiting to save
registerBegin(body) ==
    LET verdict == validateRegistrationInput(body)
        check == registerCheck(body)
    IN  IF verdict # "next"
        THEN /\ res' = Response("register", 400, verdict)
             /\ UNCHANGED <<users, now, minted, creds, rotated, pending, verified, updating, connvars, dbvars>>
        ELSE IF check # "ok"
        THEN /\ res' = Response("register", 400, check)
             /\ UNCHANGED <<users, now, minted, creds, rotated, pending, verified, updating, connvars, dbvars>>
        ELSE /\ Len(pending) < MaxPending
             /\ pending' = Append(pending, body)
             /\ UNCHANGED <<users, now, minted, res, creds, rotated, verified, updating, connvars, dbvars>>

RegisterBeginRoute == \E body \in RegisterBodies : registerBegin(body)

\* does a stored record have the e-mail or the username of the insert
insertCollides(body) ==
    \E id \in 1..Len(users) :
        \/ users[id].email = body.email
        \/ users[id].username = UsernameOf(body.email)

\* the insert refused by a unique index of the collection, if it has one:
\* save() throws and the catch block answers 500
saveRejected(body) ==
    /\ insertCollides(body)
    /\ res' = Response("register", 500, "Internal server error")
    /\ UNCHANGED <<users, now, minted, creds, rotated>>

\* the k-th waiting request goes on from user.save()
registerFinish(k) ==
    /\ pending' = SubSeq(pending, 1, k - 1) \o SubSeq(pending, k + 1, Len(pending))
    /\ \/ registerSave(pending[k])
       \/ saveRejected(pending[k])
    /\ UNCHANGED <<verified, updating, connvars, dbvars>>

RegisterFinishRoute == \E k \in 1..Len(pending) : registerFinish(k)

-----------------------------------------------------------------------------
(* POST /refresh with its awaits: other requests run between the check of   *)
(* verifyRefreshToken and removeRefreshToken in the handler                 *)

MaxVerified == 2

\* the request up to next() of verifyRefreshToken: rejected, or on its way to
\* the handler with req.user set
refreshBegin(token) ==
    LET verdict == verifyRefreshToken(token) IN
    IF verdict # "next"
    THEN /\ res' = [Response("refresh", 401, verdict) EXCEPT !.sent = token]
         /\ UNCHANGED <<users, now, minted, creds, rotated, pending, verified, updating, connvars, dbvars>>
    ELSE /\ Len(verified) < MaxVerified
         /\ verified' = Append(verified, token)
         /\ UNCHANGED <<users, now, minted, res, creds, rotated, pending, updating, connvars, dbvars>>

RefreshBeginRoute == \E token \in RefreshInputs : refreshBegin(token)

\* the handler of the k-th request that passed the check; it does not look at
\* the stored tokens again
refreshFinish(k) ==
    /\ verified' = SubSeq(verified, 1, k - 1) \o SubSeq(verified, k + 1, Len(verified))
    /\ refreshToken(verified[k])
    /\ Len(minted') <= MaxPairs

RefreshFinishRoute == \E k \in 1..Len(verified) : refreshFinish(k)

-----------------------------------------------------------------------------
(* POST /register when a step after user.save() throws *)

\* registerUser when generateTokens or addRefreshToken throws: the document
\* is saved already, and the catch block answers 500
registerSaveThenThrow(body) ==
    /\ Len(users) < MaxUsers
    /\ users' = Append(users, SaveNew(NewUserFields(body)))
    /\ creds' = Append(creds, [email |-> body.email, password |-> body.password])
    /\ res' = Response("register", 500, "Internal server error")
    /\ UNCHANGED <<now, minted, rotated, pending, verified, updating, connvars, dbvars>>

RegisterFaultWith(body) ==
    /\ validateRegistrationInput(body) = "next"
    /\ registerCheck(body) = "ok"
    /\ registerSaveThenThrow(body)

RegisterFaultRoute == \E body \in RegisterBodies : RegisterFaultWith(body)

-----------------------------------------------------------------------------
(* database/index.js: the Database object, this.users kept in memory and    *)
(* written to users.json by saveUsers                                       *)

\* { ...a, ...b }: the fields of b over those of a
Spread(a, b) ==
    [k \in DOMAIN a \cup DOMAIN b |-> IF k \in DOMAIN b THEN b[k] ELSE a[k]]

\* const { password, ...userWithoutPassword } = user
WithoutPassword(user) == [k \in DOMAIN user \ {"password"} |-> user[k]]

\* Number.prototype.toString of a clock reading
ToString(n) ==
    CASE n = 0 -> "0" [] n = 1 -> "1" [] n = 2 -> "2" [] n = 3 -> "3"
      [] n = 4 -> "4" [] OTHER -> "5"

\* bcrypt.hash(plaintext, salt): a string that is no plaintext of the callers
bcryptHash(plaintext) ==
    CASE plaintext = "pw1" -> "$2a$12$h1"
      [] plaintext = "pw2" -> "$2a$12$h2"
      [] OTHER -> "$2a$12$h0"

DbPasswords == {"pw1", "pw2"}

\* userData of createUser: plain registrations, one that repeats the e-mail
\* and the username of the first, and one that brings fields of its own
CreateInputs ==
    {[name |-> "n1", email |-> AX, username |-> "a", password |-> "pw1"],
     [name |-> "n2", email |-> BX, username |-> "b", password |-> "pw2"],
     [name |-> "n3", email |-> AX, username |-> "a", password |-> "pw2"],
     [name |-> "n4", email |-> AY, username |-> "c", password |-> "pw1",
      role |-> "admin", isActive |-> FALSE, lastLogin |-> 1]}

\* updateData of updateUser
UpdateInputs ==
    {[password |-> "pw2"], [password |-> ""], [id |-> "9"]}

\* the ids a caller asks for: those of the records, and one of no record
IdInputs == {ToString(n) : n \in 1..MaxTime} \cup {"9"}

Returned(value) == [kind |-> "return", value |-> value]
Thrown(error) == [kind |-> "throw", error |-> error]
Null == [null |-> TRUE]

\* this.users.findIndex(user => user.id === id): 0 stands for -1
findIndex(records, id) ==
    IF \E i \in 1..Len(records) : records[i].id = id
    THEN CHOOSE i \in 1..Len(records) :
            records[i].id = id /\ \A j \in 1..(i - 1) : records[j].id # id
    ELSE 0

\* saveUsers after this.users became records: fs.writeFileSync writes the
\* whole array, or throws and the call is rejected (the disk fails only when
\* the file is up to date: one failed write at a time)
saveUsers(records, value) ==
    /\ thisUsers' = records
    /\ \/ usersJson' = records /\ ret' = Returned(value)
       \/ /\ usersJson = thisUsers
          /\ usersJson' = usersJson
          /\ ret' = Thrown("writeFileSync")

createUser(userData) ==
    LET user == Spread(Spread([id |-> ToString(now)], userData),
                       [password |-> bcryptHash(userData.password),
                        createdAt |-> now,
                        lastLogin |-> NoTime,
                        isActive |-> TRUE,
                        role |-> "user"])
    IN  /\ Len(thisUsers) < MaxUsers
        /\ saveUsers(Append(thisUsers, user), WithoutPassword(user))
        /\ UNCHANGED <<users, now, minted, res, creds, rotated, pending,
                       verified, updating, connvars, usersFile, calls>>

updateUser(id, updateData) ==
    LET userIndex == findIndex(thisUsers, id)
        hashed == IF "password" \in DOMAIN updateData /\ updateData.password # ""
                  THEN Spread(updateData,
                              [password |-> bcryptHash(updateData.password)])
                  ELSE updateData
    IN  /\ IF userIndex # 0
           THEN LET user == Spread(thisUsers[userIndex], hashed)
                IN  saveUsers([thisUsers EXCEPT ![userIndex] = user],
                              WithoutPassword(user))
           ELSE /\ ret' = Returned(Null)
                /\ UNCHANGED <<thisUsers, usersJson>>
        /\ UNCHANGED <<users, now, minted, res, creds, rotated, pending,
                       verified, updating, connvars, usersFile, calls>>

updateLastLogin(id) ==
    LET userIndex == findIndex(thisUsers, id) IN
    /\ IF userIndex # 0
       THEN LET user == Spread(thisUsers[userIndex], [lastLogin |-> now])
            IN  saveUsers([thisUsers EXCEPT ![userIndex] = user], user)
       ELSE /\ ret' = Returned(Null)
            /\ UNCHANGED <<thisUsers, usersJson>>
    /\ UNCHANGED <<users, now, minted, res, creds, rotated, pending,
                   verified, updating, connvars, usersFile, calls>>

CreateUserCall == \E userData \in CreateInputs : createUser(userData)

UpdateUserCall ==
    \E id \in IdInputs, updateData \in UpdateInputs : updateUser(id, updateData)

UpdateLastLoginCall == \E id \in IdInputs : updateLastLogin(id)

-----------------------------------------------------------------------------
(* The static Database class: every call reads data/users.json again;      *)
(* createUser waits at findUserByEmail and at bcrypt.hash between its read  *)
(* and its write, updateLastLogin and updateUser run without waiting        *)

MaxCalls == 2

Undefined == [undefined |-> TRUE]

\* userData of createUser with distinct e-mails, updateData with a password
FileCreateInputs == {userData \in CreateInputs : userData.name \in {"n1", "n2"}}
FileUpdateInputs == {[password |-> "pw2"]}

\* the fields of a record that createUser and updateUser return
RecordView(user) ==
    [k \in DOMAIN user \cap {"id", "name", "email", "role", "createdAt", "updatedAt"}
        |-> user[k]]

\* createUser up to the await of findUserByEmail: the file is read, and the
\* call throws or goes on with the array it read
createUserRead(userData) ==
    /\ IF \E i \in 1..Len(usersFile) : usersFile[i].email = userData.email
       THEN /\ ret' = Thrown("User already exists")
            /\ UNCHANGED calls
       ELSE /\ Len(calls) < MaxCalls
            /\ calls' = Append(calls, [userData |-> userData, users |-> usersFile])
            /\ UNCHANGED ret
    /\ UNCHANGED <<users, now, minted, res, creds, rotated, pending, verified, updating, connvars,
                   thisUsers, usersJson, usersFile>>

\* createUser from the hash on, for the k-th waiting call: the new record is
\* pushed on the array read earlier and the array is written
createUserWrite(k) ==
    LET call == calls[k]
        newUser == [id |-> ToString(now),
                    name |-> call.userData.name,
                    email |-> call.userData.email,
                    password |-> bcryptHash(call.userData.password),
                    role |-> "user",
                    createdAt |-> now,
                    updatedAt |-> now]
    IN  /\ Len(call.users) < MaxUsers
        /\ calls' = SubSeq(calls, 1, k - 1) \o SubSeq(calls, k + 1, Len(calls))
        /\ \/ /\ usersFile' = Append(call.users, newUser)
              /\ ret' = Returned(RecordView(newUser))
           \/ /\ usersFile' = usersFile
              /\ ret' = Thrown("Failed to save user")
        /\ UNCHANGED <<users, now, minted, res, creds, rotated, pending, verified, updating, connvars,
                       thisUsers, usersJson>>

\* updateLastLogin(userId): the result of writeUsers is not looked at
updateLastLoginFile(userId) ==
    LET userIndex == findIndex(usersFile, userId) IN
    /\ IF userIndex # 0
       THEN \/ usersFile' = [usersFile EXCEPT ![userIndex] =
                                Spread(@, [lastLogin |-> now, updatedAt |-> now])]
            \/ usersFile' = usersFile
       ELSE usersFile' = usersFile
    /\ ret' = Returned(Undefined)
    /\ UNCHANGED <<users, now, minted, res, creds, rotated, pending, verified, updating, connvars,
                   thisUsers, usersJson, calls>>

\* updateUser(userId, updateData): the fields are merged as they are
updateUserFile(userId, updateData) ==
    LET userIndex == findIndex(usersFile, userId) IN
    /\ \/ /\ userIndex # 0
          /\ LET user == Spread(Spread(usersFile[userIndex], updateData),
                                [updatedAt |-> now])
             IN  /\ usersFile' = [usersFile EXCEPT ![userIndex] = user]
                 /\ ret' = Returned(RecordView(user))
       \/ /\ usersFile' = usersFile
          /\ ret' = Thrown("User not found or update failed")
    /\ UNCHANGED <<users, now, minted, res, creds, rotated, pending, verified, updating, connvars,
                   thisUsers, usersJson, calls>>

CreateUserReadCall == \E userData \in FileCreateInputs : createUserRead(userData)

CreateUserWriteCall == \E k \in 1..Len(calls) : createUserWrite(k)

UpdateLastLoginFileCall == \E userId \in IdInputs : updateLastLoginFile(userId)

UpdateUserFileCall ==
    \E userId \in IdInputs, updateData \in FileUpdateInputs :
        updateUserFile(userId, updateData)

-----------------------------------------------------------------------------
(* PUT /profile with its awaits: other requests run between the e-mail check *)
(* (await User.findOne) and the write (await User.findByIdAndUpdate)         *)

MaxUpdating == 2

\* bodies that ask for another e-mail
EmailBodies == [name : {Absent}, email : GoodEmails, role : {"user"}]

\* the request up to the answer of User.findOne: rejected, or waiting to
\* write the fields it worked out from req.user
updateProfileBegin(uid, body) ==
    IF emailTaken(uid, body)
    THEN /\ res' = [Response("profile", 400, "Email already exists")
                        EXCEPT !.uid = uid]
         /\ UNCHANGED <<users, now, minted, creds, rotated, pending, verified, updating, connvars, dbvars>>
    ELSE /\ Len(updating) < MaxUpdating
         /\ updating' = Append(updating, [uid |-> uid, role |-> body.role,
                                          fields |-> ProfileUpdateFields(uid, body)])
         /\ UNCHANGED <<users, now, minted, res, creds, rotated, pending, verified, connvars, dbvars>>

ProfileBeginRoute ==
    \E bearer \in IssuedAccess, body \in EmailBodies :
        updateProfileBegin(authenticateToken(bearer), body)

\* does another stored record have the e-mail of the update
updateCollides(request) ==
    \E id \in 1..Len(users) :
        id # request.uid /\ users[id].email = request.fields.email

\* the k-th waiting request goes on from User.findByIdAndUpdate: the document
\* is written, or a unique index of the collection, if it has one, refuses
\* the write and the catch block answers 500
updateProfileFinish(k) ==
    LET request == updating[k]
        updatedUser == findByIdAndUpdate(users[request.uid], request.fields)
    IN  /\ updating' = SubSeq(updating, 1, k - 1)
                           \o SubSeq(updating, k + 1, Len(updating))
        /\ \/ /\ users' = [users EXCEPT ![request.uid] = updatedUser]
              /\ res' = [Response("profile", 200, "Profile updated successfully")
                            EXCEPT !.uid = request.uid, !.role = request.role,
                                   !.user = ProfileView(request.uid, updatedUser)]
           \/ /\ updateCollides(request)
              /\ users' = users
              /\ res' = [Response("profile", 500, "Internal server error")
                            EXCEPT !.uid = request.uid]
        /\ UNCHANGED <<now, minted, creds, rotated, pending, verified, connvars, dbvars>>

ProfileFinishRoute == \E k \in 1..Len(updating) : updateProfileFinish(k)

-----------------------------------------------------------------------------
(* The entry file: connectDB and the middleware that runs it before the     *)
(* routes, as app.js has them and as the serverless entry file has them     *)
(* (NODE_ENV is production: a failed connect throws, the process goes on)   *)

MaxConnecting == 2

\* what mongoose.connect resolves to
Mongoose == [null |-> FALSE]

Requests ==
    [method : {"GET", "POST", "OPTIONS"},
     path : {"/api/auth/me", "/api/auth/login", "/health"}]

\* req.path.startsWith('/api/')
startsWithApi(path) == path \in {"/api/auth/me", "/api/auth/login"}

\* the request leaves the middleware: next() to the routes, the 500 answer, or
\* the preflight answer of app.options; connectDB tells how the call went
Served(req, connectDB, outcome, state) ==
    [method |-> req.method, path |-> req.path, connectDB |-> connectDB,
     outcome |-> outcome, readyState |-> state]

\* mongoose.connect is called for the request, which waits for its outcome
startConnect(req) ==
    /\ Len(connecting) < MaxConnecting
    /\ connecting' = Append(connecting, req)
    /\ readyState' = 2
    /\ UNCHANGED <<cachedConnection, served>>

\* app.js: connectDB hands out the handle it has, whatever its state
connectDB_app(req) ==
    IF cachedConnection # NoConnection
    THEN /\ served' = Served(req, "returned", "next", readyState)
         /\ UNCHANGED <<readyState, cachedConnection, connecting>>
    ELSE startConnect(req)

\* app.js, app.use(async (req, res, next) => ...) in front of everything
appMiddleware(req) ==
    /\ IF readyState # 1
       THEN connectDB_app(req)
       ELSE /\ served' = Served(req, "none", "next", readyState)
            /\ UNCHANGED <<readyState, cachedConnection, connecting>>
    /\ UNCHANGED <<users, now, minted, res, creds, rotated, pending, verified,
                   updating, dbvars>>

\* the serverless entry file: connectDB hands out the handle only while the
\* connection is open
connectDB_serverless(req) ==
    IF cachedConnection # NoConnection /\ readyState = 1
    THEN /\ served' = Served(req, "returned", "next", readyState)
         /\ UNCHANGED <<readyState, cachedConnection, connecting>>
    ELSE startConnect(req)

\* the serverless entry file: app.options('*') answers the preflight, and the
\* middleware connects for the other requests to /api/
serverlessMiddleware(req) ==
    /\ IF req.method = "OPTIONS"
       THEN /\ served' = Served(req, "none", "preflight", readyState)
            /\ UNCHANGED <<readyState, cachedConnection, connecting>>
       ELSE IF startsWithApi(req.path) /\ readyState # 1
       THEN connectDB_serverless(req)
       ELSE /\ served' = Served(req, "none", "next", readyState)
            /\ UNCHANGED <<readyState, cachedConnection, connecting>>
    /\ UNCHANGED <<users, now, minted, res, creds, rotated, pending, verified,
                   updating, dbvars>>

\* mongoose.connect of the k-th waiting request resolves: the handle is kept
\* and the request goes on to the routes
connectResolved(k) ==
    /\ connecting' = SubSeq(connecting, 1, k - 1)
                         \o SubSeq(connecting, k + 1, Len(connecting))
    /\ readyState' = 1
    /\ cachedConnection' = Mongoose
    /\ served' = Served(connecting[k], "returned", "next", 1)
    /\ UNCHANGED <<users, now, minted, res, creds, rotated, pending, verified,
                   updating, dbvars>>

\* mongoose.connect of the k-th waiting request rejects: connectDB clears the
\* handle and throws; outcome is what the middleware does with the error
connectRejected(k, outcome) ==
    /\ readyState = 2
    /\ connecting' = SubSeq(connecting, 1, k - 1)
                         \o SubSeq(connecting, k + 1, Len(connecting))
    /\ readyState' = 0
    /\ cachedConnection' = NoConnection
    /\ served' = Served(connecting[k], "threw", outcome, 0)
    /\ UNCHANGED <<users, now, minted, res, creds, rotated, pending, verified,
                   updating, dbvars>>

\* the connection to the database is lost
Drop ==
    /\ readyState = 1
    /\ readyState' = 0
    /\ UNCHANGED <<users, now, minted, res, creds, rotated, pending, verified,
                   updating, dbvars, cachedConnection, connecting, served>>

-----------------------------------------------------------------------------
(* The environment *)

\* time passes between requests
Tick ==
    /\ now < MaxTime
    /\ now' = now + 1
    /\ UNCHANGED <<users, minted, res, creds, rotated, pending, verified, updating, connvars, dbvars>>

\* an operator switches an account off in the database; no route does
Deactivate ==
    \E id \in 1..Len(users) :
        /\ users[id].isActive
        /\ users' = [users EXCEPT ![id].isActive = FALSE]
        /\ UNCHANGED <<now, minted, res, creds, rotated, pending, verified, updating, connvars, dbvars>>

-----------------------------------------------------------------------------
(* Specifications *)

Next ==
    \/ RegisterRoute
    \/ LoginRoute
    \/ GetProfileRoute
    \/ UpdateProfileRoute
    \/ LogoutRoute
    \/ RefreshRoute

\* the service as its routes drive it, all requests within one clock reading
Spec == Init /\ [][Next]_vars

NextAdmin == Next \/ Deactivate

\* the service with accounts being deactivated behind its back
SpecAdmin == Init /\ [][NextAdmin]_vars

NextRace ==
    \/ RegisterBeginRoute
    \/ RegisterFinishRoute

\* Register requests interleaving at their awaits
SpecRace == Init /\ [][NextRace]_vars

\* logins and refreshes one after the other, up to MaxPairs token pairs in all
LoginAgainRoute ==
    \E email \in GoodEmails, password \in LoginPasswords :
        /\ loginUser(email, password)
        /\ Len(minted') <= MaxPairs

RefreshAgainRoute ==
    \E token \in RefreshInputs :
        /\ RefreshWith(token)
        /\ Len(minted') <= MaxPairs

NextSession ==
    \/ RegisterRoute
    \/ LoginAgainRoute
    \/ RefreshAgainRoute
    \/ Tick

\* registrations, repeated logins and refreshes with time passing between them
SpecSession == Init /\ [][NextSession]_vars

\* bodies of PUT /profile that give a new name and no e-mail, and the body
\* with firstName and lastName
KD == <<"K", " ", "D">>
K == <<"K">>
RenameBodies ==
    [name : {KD, K}, email : {Absent}, role : {"user", "admin"}] \cup {NamesBody}

RenameRoute ==
    \E bearer \in BearerInputs, body \in RenameBodies :
        UpdateProfileWith(bearer, body)

NextProfile ==
    \/ RegisterRoute
    \/ RenameRoute
    \/ Tick

\* registrations and changes of name with time passing between them
SpecProfile == Init /\ [][NextProfile]_vars

NextReplay ==
    \/ RegisterRoute
    \/ RefreshBeginRoute
    \/ RefreshFinishRoute

\* RefreshToken requests interleaving between the check and the handler
SpecReplay == Init /\ [][NextReplay]_vars

NextFault ==
    \/ RegisterRoute
    \/ RegisterFaultRoute

\* registrations, some of them failing after the document was saved
SpecFault == Init /\ [][NextFault]_vars

NextDatabase ==
    \/ CreateUserCall
    \/ UpdateUserCall
    \/ UpdateLastLoginCall
    \/ Tick

\* the calls of the Database object of database/index.js, one after the other
SpecDatabase == Init /\ [][NextDatabase]_vars

NextFileDatabase ==
    \/ CreateUserReadCall
    \/ CreateUserWriteCall
    \/ UpdateLastLoginFileCall
    \/ UpdateUserFileCall

\* the calls of the static Database class within one reading of the clock,
\* interleaving at their awaits
SpecFileDatabase == Init /\ [][NextFileDatabase]_vars

NextEmailRace ==
    \/ RegisterRoute
    \/ ProfileBeginRoute
    \/ ProfileFinishRoute

\* changes of e-mail interleaving with each other and with registrations
SpecEmailRace == Init /\ [][NextEmailRace]_vars

\* names that are absent, of blanks only, of one word, and with two blanks
\* between the words
Blank == <<" ", " ">>
KBlanksD == <<"K", " ", " ", "D">>
NameBodies == [name : {Absent, Blank, K, KBlanksD}, email : {Absent}, role : {"user"}]

NameRoute ==
    \E bearer \in BearerInputs, body \in NameBodies :
        UpdateProfileWith(bearer, body)

NextNames ==
    \/ RegisterRoute
    \/ NameRoute

\* registrations and changes of name
SpecNames == Init /\ [][NextNames]_vars

\* after a failed connect app.js logs the error and calls next()
NextApp ==
    \/ \E req \in Requests : appMiddleware(req)
    \/ \E k \in 1..Len(connecting) : connectResolved(k)
    \/ \E k \in 1..Len(connecting) : connectRejected(k, "next")
    \/ Drop

\* requests through the connection middleware of app.js
SpecApp == Init /\ [][NextApp]_vars

\* after a failed connect the serverless entry file answers 500 'Database
\* connection failed'
NextServerless ==
    \/ \E req \in Requests : serverlessMiddleware(req)
    \/ \E k \in 1..Len(connecting) : connectResolved(k)
    \/ \E k \in 1..Len(connecting) : connectRejected(k, "500")
    \/ Drop

\* requests through the connection middleware of the serverless entry file
SpecServerless == Init /\ [][NextServerless]_vars

NextClock == Next \/ Tick

\* the service with time passing between requests
SpecClock == Init /\ [][NextClock]_vars

-----------------------------------------------------------------------------
(* Properties *)

UserIds == 1..Len(users)
DuplicateMessages == {"Email already exists", "Username already exists"}

\* C1: a Login with the e-mail and password a user registered with succeeds
\* (status 200, a user view and a token pair whose refresh token is stored),
\* as long as the user still has that e-mail and is active.
C1_LoginAfterRegister ==
    [][\A id \in UserIds :
          (/\ users[id].email = creds[id].email
           /\ users[id].isActive
           /\ loginUser(creds[id].email, creds[id].password))
          => (/\ res'.status = 200
              /\ res'.uid = id
              /\ res'.user # NoView
              /\ res'.accessToken = AccessToken(id)
              /\ res'.refreshToken \in users'[id].refreshTokens)]_vars

C1_Witness ==
    /\ res.op = "login"
    /\ res.status = 200
    /\ res.email = creds[res.uid].email
    /\ res.password = creds[res.uid].password

\* C2: a Register whose e-mail a stored record already has is rejected with
\* a duplicate error; it creates no record and issues no tokens, and exactly
\* one record has that e-mail afterwards.
C2_SecondRegisterRejected ==
    [][\A body \in ValidBodies :
          (/\ \E id \in UserIds : users[id].email = body.email
           /\ RegisterWith(body))
          => (/\ res'.status = 400
              /\ res'.message \in DuplicateMessages
              /\ res'.accessToken = NoToken
              /\ res'.refreshToken = NoToken
              /\ users' = users
              /\ minted' = minted
              /\ Cardinality({id \in 1..Len(users') :
                                 users'[id].email = body.email}) = 1)]_vars

C2_Witness ==
    /\ res.op = "register"
    /\ res.status = 400
    /\ res.message = "Email already exists"
    /\ Len(users) = 1

C4_InactiveLoginFails ==
    [][\A id \in UserIds, password \in LoginPasswords :
          (/\ res'.op = "login"
           /\ ~users[id].isActive
           /\ loginUser(users[id].email, password))
          => (/\ res'.status # 200
              /\ res'.accessToken = NoToken
              /\ res'.refreshToken = NoToken
              /\ minted' = minted
              /\ users' = users)]_vars

C4_Witness ==
    /\ res.op = "login"
    /\ res.status = 401
    /\ FindOneByEmail(res.email) # 0
    /\ ~users[FindOneByEmail(res.email)].isActive
    /\ comparePassword(res.password, users[FindOneByEmail(res.email)].password)

\* C5: the answer to a Login for an inactive account is the answer (status
\* and message) to a Login with an e-mail no record has.
C5_InactiveLikeUnknownEmail ==
    \A known \in GoodEmails, unknown \in GoodEmails :
        \A password \in LoginPasswords \ {""}, any \in LoginPasswords \ {""} :
            (/\ FindOneByEmail(known) # 0
             /\ ~users[FindOneByEmail(known)].isActive
             /\ FindOneByEmail(unknown) = 0)
            => loginCheck(known, password) = loginCheck(unknown, any)

\* C9: every stored user has the role 'user', whatever role the bodies of the
\* Register and UpdateProfile requests carried.
C9_RoleIsUser == \A id \in UserIds : users[id].role = "user"

C9_Witness ==
    /\ res.op \in {"register", "profile"}
    /\ res.status \in {200, 201}
    /\ res.role = "admin"
    /\ users[res.uid].role = "user"

EmailsUnique ==
    \A i \in UserIds, j \in UserIds : i # j => users[i].email # users[j].email
UsernamesUnique ==
    \A i \in UserIds, j \in UserIds : i # j => users[i].username # users[j].username

\* C10: after every request no two stored users share an e-mail or a
\* username (the collection starts empty), and an UpdateProfile to an e-mail
\* that another user holds is rejected with the duplicate error and changes
\* no document.
C10_Unique ==
    [][/\ EmailsUnique' /\ UsernamesUnique'
       /\ \A bearer \in BearerInputs, body \in ProfileBodies :
             (/\ res'.op = "profile"
              /\ authenticateToken(bearer) # 0
              /\ \E other \in UserIds \ {authenticateToken(bearer)} :
                    users[other].email = body.email
              /\ UpdateProfileWith(bearer, body))
             => (/\ res'.status = 400
                 /\ res'.message = "Email already exists"
                 /\ users' = users)]_vars

C10_Witness ==
    /\ res.op = "profile"
    /\ res.status = 400
    /\ res.message = "Email already exists"
    /\ Len(users) = 2

RevokedStaysRevoked ==
    \A t \in IssuedRefresh :
        verifyRefreshToken(t) = "revoked-token"
        => verifyRefreshToken(t)' = "revoked-token"

\* C6: a refresh token that a successful RefreshToken request has used is
\* rejected as revoked by every later RefreshToken request, which changes
\* nothing.
C6_OneTimeUse ==
    [][/\ \A t \in rotated' : verifyRefreshToken(t)' = "revoked-token"
       /\ \A t \in rotated :
             RefreshWith(t)
             => (/\ res'.status = 401
                 /\ res'.message = "revoked-token"
                 /\ res'.accessToken = NoToken
                 /\ res'.refreshToken = NoToken
                 /\ users' = users
                 /\ minted' = minted)]_vars

C6_Witness ==
    /\ res.op = "refresh"
    /\ res.status = 401
    /\ res.message = "revoked-token"
    /\ res.sent \in rotated

\* C7: a Logout without a refreshToken leaves the authenticated user's
\* refreshTokens empty and every refresh token issued to that user so far
\* revoked; a revoked refresh token stays revoked.
C7_LogoutAllRevokes ==
    [][/\ RevokedStaysRevoked
       /\ \A bearer \in BearerInputs :
             (/\ authenticateToken(bearer) # 0
              /\ LogoutWith(bearer, NoToken))
             => LET uid == authenticateToken(bearer)
                IN  /\ res'.status = 200
                    /\ users'[uid].refreshTokens = {}
                    /\ \A t \in IssuedRefresh :
                          t.uid = uid
                          => verifyRefreshToken(t)' = "revoked-token"]_vars

C7_Witness ==
    /\ res.op = "logout"
    /\ res.status = 200
    /\ res.sent = NoToken
    /\ rotated = {}
    /\ Cardinality({t \in IssuedRefresh : t.uid = res.uid}) = 2
    /\ \A t \in IssuedRefresh :
          t.uid = res.uid => verifyRefreshToken(t) = "revoked-token"

\* what a Logout with refresh token t does to the token sets
LogoutFrame(uid, t) ==
    /\ res'.status = 200
    /\ users'[uid].refreshTokens = users[uid].refreshTokens \ {t}
    /\ \A other \in UserIds \ {uid} :
          users'[other].refreshTokens = users[other].refreshTokens
    /\ \A kept \in IssuedRefresh \ {t} :
          verifyRefreshToken(kept)' = verifyRefreshToken(kept)

\* C8: a Logout with a refresh token t removes exactly t from the
\* authenticated user's refreshTokens: the other refresh tokens keep their
\* verdict, every other user's refreshTokens is unchanged, and t is revoked
\* afterwards when it was issued to the authenticated user; a token issued to
\* another user keeps the verdict it had.
C8_LogoutRemovesOwnToken ==
    [][\A bearer \in BearerInputs, t \in IssuedRefresh :
          (/\ authenticateToken(bearer) # 0
           /\ LogoutWith(bearer, t))
          => LET uid == authenticateToken(bearer)
             IN  /\ LogoutFrame(uid, t)
                 /\ t.uid = uid => verifyRefreshToken(t)' = "revoked-token"
                 /\ t.uid # uid
                    => verifyRefreshToken(t)' = verifyRefreshToken(t)]_vars

C8_Witness ==
    /\ res.op = "logout"
    /\ res.status = 200
    /\ res.sent \in IssuedRefresh
    /\ res.sent.uid # res.uid
    /\ verifyRefreshToken(res.sent) = "next"

\* C8 as stated: t is revoked after the Logout, whoever it was issued to.
C8_LogoutRevokesAnyToken ==
    [][\A bearer \in BearerInputs, t \in IssuedRefresh :
          (/\ authenticateToken(bearer) # 0
           /\ LogoutWith(bearer, t))
          => (/\ LogoutFrame(authenticateToken(bearer), t)
              /\ verifyRefreshToken(t)' = "revoked-token")]_vars

\* C11: a Register request waits to save only after an existence check that
\* found no record with its e-mail or username; when it then saves, the insert
\* is made and answered 201 whatever was saved in between (a second record
\* with the same e-mail included), unless the collection itself refuses a
\* colliding insert, which is answered 500 and changes nothing.
C11_RegisterRace ==
    [][/\ \A body \in ValidBodies :
             pending' = Append(pending, body) => ~insertCollides(body)
       /\ \A k \in 1..Len(pending) :
             registerFinish(k)
             => \/ /\ res'.status = 201
                   /\ SubSeq(users', 1, Len(users)) = users
                   /\ Len(users') = Len(users) + 1
                   /\ users'[Len(users')].email = pending[k].email
                   /\ res'.refreshToken \in users'[Len(users')].refreshTokens
                \/ /\ res'.status = 500
                   /\ insertCollides(pending[k])
                   /\ users' = users
                   /\ minted' = minted]_vars

C11_Witness ==
    /\ Len(users) = 2
    /\ users[1].email = users[2].email
    /\ users[1].refreshTokens # {}
    /\ res.op = "register"
    /\ res.status = 201
    /\ res.uid = 2

\* C12: a Register answered 400 (validation or duplicate), a Login answered
\* 400 or 401 (missing fields, unknown e-mail, inactive account, wrong
\* password) and an UpdateProfile answered 400 (e-mail taken) leave the users
\* collection as it was and mint no token: a step that changes either is none
\* of these.
C12_RejectedLeavesStore ==
    [][(users' # users \/ minted' # minted)
       => /\ \A body \in RegisterBodies :
                ~(res'.status = 400 /\ RegisterWith(body))
          /\ \A email \in GoodEmails \cup {Absent}, password \in LoginPasswords :
                ~(res'.status \in {400, 401} /\ loginUser(email, password))
          /\ \A bearer \in BearerInputs, body \in ProfileBodies :
                ~(res'.status = 400 /\ UpdateProfileWith(bearer, body))]_vars

C12_Witness ==
    /\ res.op = "login"
    /\ res.status = 401
    /\ res.message = "Invalid email or password"
    /\ FindOneByEmail(res.email) # 0
    /\ users[FindOneByEmail(res.email)].lastLogin = NoTime
    /\ Cardinality(users[FindOneByEmail(res.email)].refreshTokens) = 1

\* the fields a user view may carry: none of them the password (hash or
\* plaintext) or the refreshTokens set
ViewFields ==
    {"id", "name", "email", "username", "role", "lastLogin", "createdAt",
     "updatedAt"}

\* C13: the user view of a response carries only view fields, never the
\* password or the refreshTokens set; a response carries tokens only as the
\* pair minted by the request it answers (Register, Login or RefreshToken),
\* and the answers of GetProfile, UpdateProfile and Logout carry none.
C13_NoSecretsInResponses ==
    /\ res.user # NoView
       => (/\ res.op \in {"register", "login", "me", "profile"}
           /\ DOMAIN res.user \subseteq ViewFields)
    /\ (res.accessToken # NoToken \/ res.refreshToken # NoToken)
       => (/\ res.op \in {"register", "login", "refresh"}
           /\ Len(minted) > 0
           /\ res.uid = minted[Len(minted)]
           /\ res.accessToken = AccessToken(res.uid)
           /\ res.refreshToken = RefreshTokenOf(res.uid, Len(minted)))

C13_Witness ==
    /\ res.op = "login"
    /\ res.status = 200
    /\ res.user # NoView
    /\ res.refreshToken # NoToken
    /\ Cardinality(users[res.uid].refreshTokens) = 2

\* C14: a successful Login leaves the user's lastLogin non-null and equal to
\* the time of that Login, never earlier than it was, and the refresh token it
\* returns in the user's refreshTokens; a failed Login changes no document.
C14_LoginRecorded ==
    [][(res'.op = "login" /\ loginUser(res'.email, res'.password))
       => IF res'.status = 200
          THEN /\ users'[res'.uid].lastLogin = now
               /\ users'[res'.uid].lastLogin # NoTime
               /\ users'[res'.uid].lastLogin >= users[res'.uid].lastLogin
               /\ res'.refreshToken \in users'[res'.uid].refreshTokens
          ELSE users' = users]_vars

\* a second Login, later than the first
C14_Witness ==
    /\ res.op = "login"
    /\ res.status = 200
    /\ res.user.lastLogin # NoTime
    /\ users[res.uid].lastLogin > res.user.lastLogin

\* the fields that the Login view and the GetProfile view both carry
CommonViewFields ==
    {"id", "name", "email", "username", "role", "lastLogin", "createdAt"}

\* C15: the user view of a successful Login and the user view of a GetProfile
\* made next, with the access token of that Login, agree on every field both
\* carry.
C15_LoginViewIsProfileView ==
    [][(/\ res.op = "login"
        /\ res.status = 200
        /\ GetProfileWith(res.accessToken))
       => \A field \in CommonViewFields : res'.user[field] = res.user[field]]_vars

\* the request changes the first name of user uid and nothing else it names
ChangesOnlyFirstName(uid, body) ==
    /\ body.email = Absent
    /\ ProfileUpdateFields(uid, body).firstName # users[uid].firstName
    /\ ProfileUpdateFields(uid, body).lastName = users[uid].lastName

\* the document of uid changes in firstName and updatedAt only, no other does
RenameFrame(uid, body) ==
    /\ res'.status = 200
    /\ users' = [users EXCEPT
                    ![uid] = [@ EXCEPT
                                 !.firstName = ProfileUpdateFields(uid, body).firstName,
                                 !.updatedAt = users'[uid].updatedAt]]
    /\ users'[uid].firstName # users[uid].firstName

\* C16: an UpdateProfile that changes only the first name leaves the user's
\* e-mail, username, role, password, isActive and refreshTokens and every
\* other user as they were, and sets updatedAt to the time of the request:
\* never earlier than it was, and later whenever the clock has advanced since
\* the document was last written.
C16_RenameFrame ==
    [][\A uid \in UserIds, body \in RenameBodies :
          (/\ res'.op = "profile"
           /\ ChangesOnlyFirstName(uid, body)
           /\ UpdateProfileWith(AccessToken(uid), body))
          => (/\ RenameFrame(uid, body)
              /\ users'[uid].updatedAt = now
              /\ users'[uid].updatedAt >= users[uid].updatedAt
              /\ users[uid].updatedAt < now
                 => users'[uid].updatedAt > users[uid].updatedAt)]_vars

C16_Witness ==
    /\ res.op = "profile"
    /\ res.status = 200
    /\ Len(users) = 2
    /\ users[res.uid].firstName = K
    /\ users[res.uid].lastName = <<"D">>
    /\ users[res.uid].refreshTokens # {}
    /\ users[res.uid].updatedAt > users[res.uid].createdAt

\* C16 as stated: updatedAt is strictly later after the request than before.
C16_RenameAdvancesUpdatedAt ==
    [][\A uid \in UserIds, body \in RenameBodies :
          (/\ res'.op = "profile"
           /\ ChangesOnlyFirstName(uid, body)
           /\ UpdateProfileWith(AccessToken(uid), body))
          => (/\ RenameFrame(uid, body)
              /\ users'[uid].updatedAt > users[uid].updatedAt)]_vars

\* the document of uid with token old rotated into token new
Rotated(uid, old, new) ==
    [users[uid] EXCEPT !.refreshTokens = (@ \ {old}) \cup {new}]

\* C17: a successful RefreshToken with token t of user U removes t from U's
\* refreshTokens and adds the refresh token it returns, which is new; the other
\* members of the set, every other field of U but the updatedAt timestamp,
\* which becomes the time of the request, and every other user are as before,
\* and U has as many refresh tokens as before.
C17_RefreshFrame ==
    [][(/\ res'.op = "refresh"
        /\ res'.status = 200
        /\ RefreshWith(res'.sent))
       => LET uid == res'.sent.uid
          IN  /\ res'.sent \in users[uid].refreshTokens
              /\ res'.refreshToken \notin users[uid].refreshTokens
              /\ users' = [users EXCEPT
                              ![uid] = [Rotated(uid, res'.sent, res'.refreshToken)
                                           EXCEPT !.updatedAt = now]]
              /\ Cardinality(users'[uid].refreshTokens)
                    = Cardinality(users[uid].refreshTokens)]_vars

C17_Witness ==
    /\ res.op = "refresh"
    /\ res.status = 200
    /\ Len(users) = 2
    /\ Cardinality(users[res.uid].refreshTokens) = 2
    /\ res.sent \notin users[res.uid].refreshTokens
    /\ res.refreshToken \in users[res.uid].refreshTokens
    /\ users[res.uid].updatedAt > users[res.uid].createdAt

\* C17 as stated: nothing of U but refreshTokens changes.
C17_RefreshChangesOnlyTokens ==
    [][(/\ res'.op = "refresh"
        /\ res'.status = 200
        /\ RefreshWith(res'.sent))
       => users' = [users EXCEPT
                       ![res'.sent.uid] =
                           Rotated(res'.sent.uid, res'.sent, res'.refreshToken)]]_vars

\* the answer of the authentication layer: no data, nothing changed
RejectedUnauthenticated ==
    /\ res'.status = 401
    /\ res'.message = "unauthenticated"
    /\ res'.user = NoView
    /\ users' = users
    /\ minted' = minted

\* C18: a GetProfile, UpdateProfile or Logout request whose bearer token does
\* not verify is answered 401 unauthenticated and changes nothing, and so is a
\* RefreshToken request whose token the verifier does not accept; an answer
\* that comes from one of the handlers is for a user whose access token (or
\* refresh token, for RefreshToken) was verified.
C18_HandlersBehindMiddleware ==
    [][/\ res'.op = "me"
          => \A bearer \in BearerInputs :
                (authenticateToken(bearer) = 0 /\ GetProfileWith(bearer))
                => RejectedUnauthenticated
       /\ res'.op = "profile"
          => \A bearer \in BearerInputs, body \in ProfileBodies :
                (authenticateToken(bearer) = 0 /\ UpdateProfileWith(bearer, body))
                => RejectedUnauthenticated
       /\ res'.op = "logout"
          => \A bearer \in BearerInputs, token \in RefreshInputs \cup {NoToken} :
                (authenticateToken(bearer) = 0 /\ LogoutWith(bearer, token))
                => RejectedUnauthenticated
       /\ res'.op = "refresh"
          => \A token \in RefreshInputs :
                (verifyRefreshToken(token) # "next" /\ RefreshWith(token))
                => (res'.status = 401 /\ users' = users /\ minted' = minted)
       /\ (res'.op \in {"me", "profile", "logout"} /\ res'.status # 401)
          => (res'.uid \in UserIds /\ AccessToken(res'.uid) \in IssuedAccess)
       /\ (res' # res /\ res'.op = "refresh" /\ res'.status # 401)
          => verifyRefreshToken(res'.sent) = "next"]_vars

C18_Witness ==
    /\ res.op = "logout"
    /\ res.status = 401
    /\ res.message = "unauthenticated"
    /\ \E id \in UserIds : users[id].refreshTokens # {}

\* the reasons to reject a registration, in the order they apply
FieldMissing(body) ==
    body.name = Absent \/ body.email = Absent \/ body.password = ""
ConfirmationDiffers(body) ==
    body.confirmPassword # "" /\ body.confirmPassword # body.password
PasswordTooShort(body) == Len(body.password) < MinPasswordLength
AddressMalformed(body) == ~emailRegexTest(body.email)

ValidationMessages ==
    {"All fields are required", "Passwords do not match",
     "Password must be at least 6 characters long", "Please enter a valid email"}

\* the 400 answer of the validator: the handler has not run
ValidationError(message) ==
    /\ res'.status = 400
    /\ res'.message = message
    /\ users' = users
    /\ minted' = minted
    /\ creds' = creds

C20_RegisterWithUsername ==
    [][RegisterWith(ReadmeBody)
       => (/\ res'.status = 201
           /\ users'[Len(users')].username = ReadmeBody.username
           /\ users'[Len(users')].firstName = ReadmeBody.firstName
           /\ users'[Len(users')].lastName = ReadmeBody.lastName)]_vars

\* C21: an UpdateProfile whose body carries firstName and lastName sets the
\* stored first and last name to them, and the returned user shows the new
\* names.
C21_UpdateProfileSetsNames ==
    [][\A bearer \in IssuedAccess :
          (authenticateToken(bearer) # 0 /\ UpdateProfileWith(bearer, NamesBody))
          => (/\ res'.status = 200
              /\ users'[bearer.uid].firstName = NamesBody.firstName
              /\ users'[bearer.uid].lastName = NamesBody.lastName
              /\ res'.user.name
                   = DisplayName(NamesBody.firstName, NamesBody.lastName))]_vars

\* C28: a refresh token is exchanged for a new pair at most once, however the
\* RefreshToken requests that carry it interleave: a request answered with a
\* new pair never carried a token that an earlier request had consumed.
C28_RefreshTokenUsedOnce ==
    [][(minted' # minted /\ res'.op = "refresh" /\ res'.status = 200)
       => res'.sent \notin rotated]_vars

\* C29: Register is all-or-nothing: after a Register answered with an internal
\* error no stored record has the e-mail of the request.
C29_RegisterAllOrNothing ==
    [][\A body \in RegisterBodies :
          (/\ res'.op = "register"
           /\ res'.status = 500
           /\ RegisterWith(body) \/ RegisterFaultWith(body))
          => \A id \in 1..Len(users') : users'[id].email # body.email]_vars

\* C23: in the credential store the password of every stored record is a
\* hash, never a plaintext a caller supplied, after any createUser and
\* updateUser calls, and no value they return carries a password.
C23_PasswordsStoredHashed ==
    /\ \A i \in 1..Len(usersFile) : usersFile[i].password \notin DbPasswords
    /\ ret.kind = "return" => "password" \notin DOMAIN ret.value

\* C24: the ids of the stored records are pairwise distinct and the id of a
\* record never changes, whatever the fields and the timing of the calls.
C24_IdsDistinctAndFixed ==
    [][/\ \A i, j \in 1..Len(thisUsers') :
             i # j => thisUsers'[i].id # thisUsers'[j].id
       /\ \A i \in 1..Len(thisUsers) : thisUsers'[i].id = thisUsers[i].id]_vars

\* C25: createUser with the e-mail or the username of a stored record fails
\* with an error and leaves the records as they were.
C25_CreateRejectsDuplicates ==
    [][\A userData \in CreateInputs :
          (/\ createUser(userData)
           /\ \E i \in 1..Len(thisUsers) :
                 \/ thisUsers[i].email = userData.email
                 \/ thisUsers[i].username = userData.username)
          => (/\ ret'.kind = "throw"
              /\ thisUsers' = thisUsers
              /\ usersJson' = usersJson)]_vars

\* C26: the record made by createUser has role user, isActive true, lastLogin
\* null and createdAt = updatedAt, whatever fields the caller supplies.
C26_CreateDefaults ==
    [][\A userData \in CreateInputs :
          createUser(userData)
          => LET user == thisUsers'[Len(thisUsers')]
             IN  /\ user.role = "user"
                 /\ user.isActive = TRUE
                 /\ user.lastLogin = NoTime
                 /\ "updatedAt" \in DOMAIN user
                 /\ user.updatedAt = user.createdAt]_vars

\* C27: a createUser, updateUser or updateLastLogin that returns without an
\* error has written the records, its change included, to the file; one whose
\* write fails reports the failure and leaves the records of the store as
\* they were before the call.
C27_WritesDurable ==
    [][(thisUsers' # thisUsers \/ usersJson' # usersJson \/ ret' # ret)
       => IF ret'.kind = "throw"
          THEN thisUsers' = thisUsers /\ usersJson' = usersJson
          ELSE thisUsers' # thisUsers => usersJson' = thisUsers']_vars

\* C30: a createUser that writes the file loses no record and no change that
\* another call wrote since this one read the file: every record of the file
\* is still in it afterwards.
C30_NoLostWrite ==
    [][\A k \in 1..Len(calls) :
          (createUserWrite(k) /\ ret'.kind = "return")
          => \A i \in 1..Len(usersFile) :
                \E j \in 1..Len(usersFile') : usersFile'[j] = usersFile[i]]_vars

\* C31: e-mail uniqueness survives interleaving: after an UpdateProfile that
\* interleaved with a Register or with another UpdateProfile is answered with
\* success, no other stored user has the e-mail it wrote.
C31_EmailUniqueUnderInterleaving ==
    [][\A k \in 1..Len(updating) :
          (res'.status = 200 /\ updateProfileFinish(k))
          => \A id \in 1..Len(users') :
                id # updating[k].uid
                => users'[id].email # users'[updating[k].uid].email]_vars

\* C32: an UpdateProfile with no name, an empty name or a name of blanks only
\* leaves the stored first and last name as they were; with any other name the
\* display name of the stored user afterwards is the name of the body, trimmed.
C32_NameUpdate ==
    [][\A uid \in UserIds, body \in NameBodies :
          (/\ res'.op = "profile"
           /\ res'.status = 200
           /\ UpdateProfileWith(AccessToken(uid), body))
          => IF Trim(body.name) = <<>>
             THEN /\ users'[uid].firstName = users[uid].firstName
                  /\ users'[uid].lastName = users[uid].lastName
             ELSE DisplayName(users'[uid].firstName, users'[uid].lastName)
                    = Trim(body.name)]_vars

\* C33: a request other than OPTIONS to a path under /api/ goes on to its
\* route handler only with the connection open (readyState 1) at the moment
\* the connection middleware lets it go; a request whose connect failed is
\* answered 500 and not passed on; no OPTIONS request starts a connect.
C33_RoutesNeedConnection ==
    [][/\ (/\ served'.outcome = "next"
           /\ served'.method # "OPTIONS"
           /\ startsWithApi(served'.path)) => served'.readyState = 1
       /\ (Len(connecting') < Len(connecting) /\ served'.connectDB = "threw")
              => served'.outcome = "500"
       /\ Len(connecting') > Len(connecting)
              => connecting'[Len(connecting')].method # "OPTIONS"]_vars

\* C34: when connectDB returns without throwing the connection is open; a
\* failed connect leaves no cached handle; and a request that needs the
\* database and finds the connection dropped (readyState 0) starts a new
\* connect, cached handle or not.
C34_ConnectDBReturnsLive ==
    [][/\ served'.connectDB = "returned" => served'.readyState = 1
       /\ (Len(connecting') < Len(connecting) /\ served'.connectDB = "threw")
              => cachedConnection' = NoConnection
       /\ \A req \in Requests :
              (/\ readyState = 0
               /\ req.method # "OPTIONS"
               /\ startsWithApi(req.path)
               /\ (appMiddleware(req) \/ serverlessMiddleware(req)))
                  => Len(connecting') > Len(connecting)]_vars

\* C35: at most one call of mongoose.connect is waiting for its outcome at
\* any time.
C35_OneConnectInFlight == Len(connecting) <= 1

====
